---- MODULE Spec2Model ----
(***************************************************************************)
(* State-machine model of src/main.rs: the Vulkan bring-up performed by    *)
(* run() and the outer entry point main().  Every driver call of run() is   *)
(* one action, so that the debug callback can arrive between any two; the  *)
(* `?` operator's early return, together with the drop of run()'s locals,  *)
(* is part of the action that fails.                                       *)
(***************************************************************************)
EXTENDS Integers, Sequences, FiniteSets, TLC

VARIABLES
    pc,                 \* position in main()/run()
    envVar,             \* process environment: state of VK_LIBRARY_PATH
    windowAlive,        \* the winit window exists
    window_inner_size,  \* what window.inner_size() answered last, in pixels
    alive,              \* GPU objects currently alive
    trace,              \* creation / selection / destruction events, in order
    started,            \* stages of run() that have begun, in order
    gpuCalls,           \* loader and driver entry points called so far
    result,             \* value returned by run(): "none", "Ok" or an error
    exitCode,           \* process result: -1 while running
    log,                \* records received by the log sink
    cbCount,            \* debug callback invocations so far
    cb_last,            \* the last invocation: its arguments and the value
                        \* it returned
    required_instance_extensions,
    instance_extensions,
    device_count,       \* how many devices enumerate_physical_devices()
                        \* returned
    devices,            \* what the devices examined so far report, in
                        \* enumeration order
    physical_device,    \* index into devices of the selected one, 0 = none
    queue_family_index, \* 0-based index as in the source, -1 = none
    min_image_count,
    surface_formats,    \* the list the query of line 172 returned
    surface_format,
    swapchain_info,     \* the SwapchainCreateInfoKHR passed to the driver
    command_pool_family,
    command_buffer,     \* the allocation that produced the command buffers
    color_attachment_format

vars == << pc, envVar, windowAlive, window_inner_size, alive, trace, started, gpuCalls, result,
           exitCode, log, cbCount, cb_last, required_instance_extensions,
           instance_extensions, device_count, devices, physical_device,
           queue_family_index, min_image_count, surface_formats,
           surface_format, swapchain_info,
           command_pool_family, command_buffer, color_attachment_format >>

-----------------------------------------------------------------------------
(* Bounds of the model. *)
MaxDevices == 2
MaxCallbacks == 1

-----------------------------------------------------------------------------
(* Program constants. *)
VK_KHR_SURFACE == "VK_KHR_surface"
VK_EXT_DEBUG_UTILS == "VK_EXT_debug_utils"
VK_LAYER_KHRONOS_VALIDATION == "VK_LAYER_KHRONOS_validation"
VK_KHR_SWAPCHAIN == "VK_KHR_swapchain"

\* vk::API_VERSION_1_0 / 1_1 / 1_2 = (major << 22) | (minor << 12)
API_VERSION_1_1 == 4198400
API_VERSION_1_0 == API_VERSION_1_1 - 4096
API_VERSION_1_2 == API_VERSION_1_1 + 4096

SRGB_NONLINEAR == "SRGB_NONLINEAR"
BT2020_LINEAR == "BT2020_LINEAR"
GRAPHICS == "GRAPHICS"
COMPUTE == "COMPUTE"
TRANSFER == "TRANSFER"

NoFormat == [format |-> "UNDEFINED", color_space |-> "none"]
NoSwapchain == [created |-> FALSE]
NoCommandBuffer ==
    [command_buffer_count |-> 0, command_pool |-> "null", level |-> "none"]
NoCallback == [severity |-> 0, msg |-> "", ret |-> "none"]

\* vk::DebugUtilsMessageSeverityFlagsEXT bits
VERBOSE == 1
INFO == 16
WARNING == 256
ERROR == 4096
VK_FALSE == 0

-----------------------------------------------------------------------------
(* Inputs: what the environment, the window library and the driver may     *)
(* answer.                                                                 *)
EnvStates == {"unset", "not_unicode", "bad_path", "valid"}

\* Lists ash_window::enumerate_required_extensions may return: the generic
\* surface extension followed by the platform's, or (headless) nothing.
RequiredExtensionLists ==
    { << >>,
      << "VK_KHR_surface", "VK_KHR_wayland_surface" >> }

\* Values the surface may report as its minimum image count.
MinImageCounts == { 2, 3 }

OkVal(v) == [ok |-> TRUE, val |-> v]
ErrVal == [ok |-> FALSE, val |-> << >>]

Fmt(f, cs) == [format |-> f, color_space |-> cs]

GoodDevice ==
    [api_version |-> API_VERSION_1_1,
     surface_formats |-> OkVal(<< Fmt("B8G8R8A8_UNORM", SRGB_NONLINEAR) >>),
     present_modes |-> OkVal(<< "FIFO" >>),
     queue_families |-> << {GRAPHICS} >>]

DeviceProfiles ==
    { GoodDevice,
      [GoodDevice EXCEPT !.api_version = API_VERSION_1_0],
      [GoodDevice EXCEPT !.surface_formats = OkVal(<< >>)],
      [GoodDevice EXCEPT !.surface_formats = ErrVal],
      [GoodDevice EXCEPT !.present_modes = OkVal(<< >>)],
      [GoodDevice EXCEPT !.present_modes = ErrVal],
      [GoodDevice EXCEPT !.queue_families = << {COMPUTE} >>],
      [api_version |-> API_VERSION_1_2,
       surface_formats |-> OkVal(<< Fmt("R16G16B16A16_SFLOAT", BT2020_LINEAR),
                                    Fmt("R8G8B8A8_SRGB", SRGB_NONLINEAR),
                                    Fmt("B8G8R8A8_UNORM", SRGB_NONLINEAR) >>),
       present_modes |-> OkVal(<< "MAILBOX", "FIFO" >>),
       queue_families |-> << {COMPUTE, TRANSFER}, {GRAPHICS, COMPUTE},
                             {GRAPHICS} >>] }

\* Severity values the driver may hand to the callback: the four single bits
\* and one value that is none of them.
Severities == { VERBOSE, INFO, WARNING, ERROR, INFO + WARNING }
DriverMessages == { "validation message" }

\* What the driver may answer to the formats query of line 172: an error,
\* any of the lists a device can report, or a list without sRGB.
FormatAnswers ==
    { d.surface_formats : d \in DeviceProfiles }
    \cup { OkVal(<< Fmt("B8G8R8A8_UNORM", BT2020_LINEAR) >>) }

\* Inner sizes the window system may give the window: the requested one
\* (line 27) or another.
WindowSizes == { << 1080, 720 >>, << 800, 600 >> }

-----------------------------------------------------------------------------
(* Pure parts of run(). *)

\* line 33: std::env::var("VK_LIBRARY_PATH")
EnvVarLookup_Unwrap(env) == OkVal(env)

EnvVarLookup(env) ==
    IF env \in {"unset", "not_unicode"} THEN ErrVal ELSE OkVal(env)

ConcatExtensions_NoDebugUtils(required) == required \o << VK_KHR_SURFACE >>

\* lines 39-43: [required, &[VK_KHR_SURFACE, VK_EXT_DEBUG_UTILS]].concat()
ConcatExtensions(required) ==
    required \o << VK_KHR_SURFACE, VK_EXT_DEBUG_UTILS >>

ApiVersionOk_Any(d) == TRUE

\* line 121: first conjunct of the closure given to find()
ApiVersionOk(d) == d.api_version >= API_VERSION_1_1

\* lines 122-125: .map(|formats| !formats.is_empty()).unwrap_or(false) on the
\* answer of get_physical_device_surface_formats
SurfaceFormatsOk(d) ==
    d.surface_formats.ok /\ Len(d.surface_formats.val) > 0

PresentModesOk_AndGraphics(d) ==
    /\ d.present_modes.ok /\ Len(d.present_modes.val) > 0
    /\ \E i \in 1..Len(d.queue_families) : GRAPHICS \in d.queue_families[i]

\* lines 126-129: the same on get_physical_device_surface_present_modes
PresentModesOk(d) ==
    d.present_modes.ok /\ Len(d.present_modes.val) > 0

NextCandidate_StopOnError(examined, count) ==
    IF /\ Len(examined) > 0
       /\ examined[Len(examined)].api_version >= API_VERSION_1_1
       /\ \/ ~examined[Len(examined)].surface_formats.ok
          \/ ~examined[Len(examined)].present_modes.ok
    THEN 0
    ELSE IF Len(examined) < count THEN Len(examined) + 1 ELSE 0

\* lines 116-120: find() pulls the next element of the (lazy) iterator over
\* the `count` enumerated devices after the closure has rejected the last of
\* `examined`; 0 stands for the end of the iterator
NextCandidate(examined, count) ==
    IF Len(examined) < count THEN Len(examined) + 1 ELSE 0

\* lines 145-148: the closure given to find_map()
HasGraphics(properties) == GRAPHICS \in properties

\* lines 141-151: iter().enumerate().find_map(); the result is the source's
\* 0-based index, -1 stands for None
RECURSIVE FindFamilyFrom(_, _)
FindFamilyFrom(families, i) ==
    IF i > Len(families) THEN -1
    ELSE IF HasGraphics(families[i]) THEN i - 1
    ELSE FindFamilyFrom(families, i + 1)

FindGraphicsFamily_OneBased(families) == FindFamilyFrom(families, 1) + 1

FindGraphicsFamily(families) == FindFamilyFrom(families, 1)

\* lines 181-183: into_iter().find(color_space == SRGB_NONLINEAR); 0 = None
RECURSIVE FindFormatFrom(_, _)
FindFormatFrom(formats, i) ==
    IF i > Len(formats) THEN 0
    ELSE IF formats[i].color_space = SRGB_NONLINEAR THEN i
    ELSE FindFormatFrom(formats, i + 1)

FindSurfaceFormat_TakeFirst(formats) == IF Len(formats) > 0 THEN 1 ELSE 0

FindSurfaceFormat(formats) == FindFormatFrom(formats, 1)

logger_WarningAsError(severity, msg) ==
    [records |->
        CASE severity = VERBOSE -> << [level |-> "debug", msg |-> << msg >>] >>
          [] severity = INFO    -> << [level |-> "info", msg |-> << msg >>] >>
          [] severity = ERROR   -> << [level |-> "error", msg |-> << msg >>] >>
          [] severity = WARNING -> << [level |-> "error", msg |-> << msg >>] >>
          [] OTHER              -> << >>,
     ret |-> VK_FALSE]

logger_ReturnsTrue(severity, msg) ==
    [records |->
        CASE severity = VERBOSE -> << [level |-> "debug", msg |-> << msg >>] >>
          [] severity = INFO    -> << [level |-> "info", msg |-> << msg >>] >>
          [] severity = ERROR   -> << [level |-> "error", msg |-> << msg >>] >>
          [] severity = WARNING -> << [level |-> "warn", msg |-> << msg >>] >>
          [] OTHER              -> << >>,
     ret |-> VK_FALSE + 1]

\* lines 61-84: the debug callback; the records it hands to the log sink and
\* the value it returns
logger(severity, msg) ==
    [records |->
        CASE severity = VERBOSE -> << [level |-> "debug", msg |-> << msg >>] >>
          [] severity = INFO    -> << [level |-> "info", msg |-> << msg >>] >>
          [] severity = ERROR   -> << [level |-> "error", msg |-> << msg >>] >>
          [] severity = WARNING -> << [level |-> "warn", msg |-> << msg >>] >>
          [] OTHER              -> << >>,
     ret |-> VK_FALSE]

\* lines 17-19: what main() logs for the result of run()
MainLog(res) ==
    IF res # "Ok"
    THEN << [level |-> "error", msg |-> << "Fatal error: ", res >>] >>
    ELSE << >>

ExitCode_AlwaysZero(res) == 0

\* line 21: main() returns the result; Ok(()) exits 0, Err exits 1
ExitCode(res) == IF res = "Ok" THEN 0 ELSE 1

CommandBufferAllocateInfo_Two(pool) ==
    [command_buffer_count |-> 2, command_pool |-> pool, level |-> "PRIMARY"]

\* lines 222-225: the command buffer allocate info
CommandBufferAllocateInfo(pool) ==
    [command_buffer_count |-> 1, command_pool |-> pool, level |-> "PRIMARY"]

ColorAttachmentFormat_Fixed(sf) == "B8G8R8A8_UNORM"

\* lines 229-230: .format(surface_format.format) of the color attachment
ColorAttachmentFormat(sf) == sf.format

\* lines 188-206: the swapchain create info; window.inner_size() is called
\* once for the width (line 195) and once more for the height (line 196)
SwapchainCreateInfo(sf, width_read, height_read, count, family) ==
    [created |-> TRUE,
     clipped |-> TRUE,
     composite_alpha |-> "OPAQUE",
     image_array_layers |-> 1,
     image_color_space |-> sf.color_space,
     image_extent |-> << width_read[1], height_read[2] >>,
     image_format |-> sf.format,
     image_sharing_mode |-> "EXCLUSIVE",
     image_usage |-> "COLOR_ATTACHMENT",
     min_image_count |-> count,
     old_swapchain |-> "null",
     pre_transform |-> "IDENTITY",
     present_mode |-> "FIFO",
     queue_family_indices |-> << family >>]

\* lines 173-180: the records log::info! hands to the log sink for the list
\* the second formats query returned
FormatsLog(formats) ==
    << [level |-> "info", msg |-> << "Formats available:" >>] >>
    \o [i \in 1..Len(formats) |->
           [level |-> "info",
            msg |-> << "Color space: ", formats[i].color_space,
                       ", Format: ", formats[i].format >>]]

-----------------------------------------------------------------------------
Ev(kind, obj) == [ev |-> kind, obj |-> obj]

Init ==
    /\ pc = "create_window"
    /\ envVar \in EnvStates
    /\ windowAlive = FALSE
    /\ window_inner_size = << 0, 0 >>
    /\ alive = {}
    /\ trace = << >>
    /\ started = << >>
    /\ gpuCalls = {}
    /\ result = "none"
    /\ exitCode = -1
    /\ log = << >>
    /\ cbCount = 0
    /\ cb_last = NoCallback
    /\ required_instance_extensions = << >>
    /\ instance_extensions = << >>
    /\ device_count = 0
    /\ devices = << >>
    /\ physical_device = 0
    /\ queue_family_index = -1
    /\ min_image_count = 0
    /\ surface_formats = << >>
    /\ surface_format = NoFormat
    /\ swapchain_info = NoSwapchain
    /\ command_pool_family = -1
    /\ command_buffer = NoCommandBuffer
    /\ color_attachment_format = "UNDEFINED"

-----------------------------------------------------------------------------
(* The `?` operator: run() returns the error and its locals are dropped.   *)
(* Of the locals only `entry` (the loaded library) and `window` release    *)
(* anything when dropped; ash's Instance, Device and the raw handles have  *)
(* no Drop impl, so whatever was created stays alive.                      *)
Fail(kind) ==
    /\ result' = kind
    /\ pc' = "returned"
    /\ alive' = alive \ {"entry"}
    /\ trace' = IF "entry" \in alive
                THEN Append(trace, Ev("destroy", "entry"))
                ELSE trace
    /\ windowAlive' = FALSE

Created(obj, next) ==
    /\ alive' = alive \cup {obj}
    /\ trace' = Append(trace, Ev("create", obj))
    /\ pc' = next
    /\ UNCHANGED << result, windowAlive >>

Destroyed(obj, next) ==
    /\ alive' = alive \ {obj}
    /\ trace' = Append(trace, Ev("destroy", obj))
    /\ pc' = next
    /\ UNCHANGED << result, windowAlive >>

outer == << envVar, exitCode, log, cbCount, cb_last, window_inner_size >>
selection == << device_count, devices, physical_device, queue_family_index >>
extensions == << required_instance_extensions, instance_extensions >>
swapchainState == << min_image_count, surface_formats, surface_format,
                    swapchain_info >>
lateState == << command_pool_family, command_buffer,
                color_attachment_format >>

\* lines 25-29
CreateWindow ==
    /\ pc = "create_window"
    /\ started' = Append(started, "window")
    /\ \E ok \in BOOLEAN :
          IF ok
          THEN /\ windowAlive' = TRUE
               /\ pc' = "load_entry"
               /\ UNCHANGED << result, alive, trace >>
          ELSE Fail("WindowFailure")
    /\ UNCHANGED << gpuCalls, outer, selection, extensions, swapchainState,
                    lateState >>

\* lines 31-36: std::env::var fails when the variable is unset or not
\* unicode; only then is the library opened.
LoadEntry ==
    /\ pc = "load_entry"
    /\ started' = Append(started, "entry")
    /\ IF ~EnvVarLookup(envVar).ok
       THEN /\ Fail("ConfigMissing")
            /\ UNCHANGED gpuCalls
       ELSE /\ gpuCalls' = gpuCalls \cup {"load_from"}
            /\ IF envVar = "valid"
               THEN Created("entry", "required_extensions")
               ELSE Fail("LoaderFailure")
    /\ UNCHANGED << outer, selection, extensions, swapchainState, lateState >>

\* lines 37-43
RequiredExtensions ==
    /\ pc = "required_extensions"
    /\ started' = Append(started, "required_extensions")
    /\ \E ok \in BOOLEAN :
          IF ok
          THEN \E req \in RequiredExtensionLists :
                  /\ required_instance_extensions' = req
                  /\ instance_extensions' = ConcatExtensions(req)
                  /\ pc' = "create_instance"
                  /\ UNCHANGED << result, alive, trace, windowAlive >>
          ELSE /\ Fail("ExtensionsFailure")
               /\ UNCHANGED extensions
    /\ UNCHANGED << gpuCalls, outer, selection, swapchainState, lateState >>

\* lines 46-58
CreateInstance ==
    /\ pc = "create_instance"
    /\ started' = Append(started, "instance")
    /\ gpuCalls' = gpuCalls \cup {"create_instance"}
    /\ \E ok \in BOOLEAN :
          IF ok THEN Created("instance", "create_debug_messenger")
                ELSE Fail("InstanceFailure")
    /\ UNCHANGED << outer, selection, extensions, swapchainState, lateState >>

\* lines 60, 85-102
CreateDebugMessenger ==
    /\ pc = "create_debug_messenger"
    /\ started' = Append(started, "debug_messenger")
    /\ gpuCalls' = gpuCalls \cup {"create_debug_utils_messenger"}
    /\ \E ok \in BOOLEAN :
          IF ok THEN Created("debug_messenger", "create_surface")
                ELSE Fail("DebugMessengerFailure")
    /\ UNCHANGED << outer, selection, extensions, swapchainState, lateState >>

\* lines 104-113
CreateSurface ==
    /\ pc = "create_surface"
    /\ started' = Append(started, "surface")
    /\ gpuCalls' = gpuCalls \cup {"create_surface"}
    /\ \E ok \in BOOLEAN :
          IF ok THEN Created("surface", "select_physical_device")
                ELSE Fail("SurfaceFailure")
    /\ UNCHANGED << outer, selection, extensions, swapchainState, lateState >>

\* lines 116-120, 131-132: find() goes on with the device after the ones
\* examined; when there is none it returns None, which ok_or_else and `?`
\* turn into the error run() returns
ScanAfter(examined, count) ==
    IF NextCandidate(examined, count) # 0
    THEN /\ pc' = "get_physical_device_properties"
         /\ UNCHANGED << result, alive, trace, windowAlive >>
    ELSE Fail("NoSuitableDevice")

\* lines 115-118: enumerate_physical_devices()?
EnumeratePhysicalDevices ==
    /\ pc = "select_physical_device"
    /\ started' = Append(started, "physical_device")
    /\ gpuCalls' = gpuCalls \cup {"enumerate_physical_devices"}
    /\ \E ok \in BOOLEAN :
          IF ok
          THEN \E count \in 0..MaxDevices :
                  /\ device_count' = count
                  /\ ScanAfter(<< >>, count)
          ELSE /\ Fail("EnumerateFailure")
               /\ UNCHANGED device_count
    /\ UNCHANGED << outer, devices, physical_device, queue_family_index,
                    extensions, swapchainState, lateState >>

\* lines 119-121: the map() closure fetches the properties of the next
\* device, which is the first time the driver is asked about it, and the
\* predicate starts with the version test; && goes on to the formats query
\* only when it holds
GetPhysicalDeviceProperties ==
    /\ pc = "get_physical_device_properties"
    /\ gpuCalls' = gpuCalls \cup {"get_physical_device_properties"}
    /\ \E d \in DeviceProfiles :
          /\ devices' = Append(devices, d)
          /\ IF ApiVersionOk(d)
             THEN /\ pc' = "get_physical_device_surface_formats"
                  /\ UNCHANGED << result, alive, trace, windowAlive >>
             ELSE ScanAfter(Append(devices, d), device_count)
    /\ UNCHANGED << started, outer, device_count, physical_device,
                    queue_family_index, extensions, swapchainState,
                    lateState >>

\* lines 122-125: an error or an empty list rejects the device
QuerySurfaceFormats ==
    /\ pc = "get_physical_device_surface_formats"
    /\ gpuCalls' = gpuCalls \cup {"get_physical_device_surface_formats"}
    /\ IF SurfaceFormatsOk(devices[Len(devices)])
       THEN /\ pc' = "get_physical_device_surface_present_modes"
            /\ UNCHANGED << result, alive, trace, windowAlive >>
       ELSE ScanAfter(devices, device_count)
    /\ UNCHANGED << started, outer, selection, extensions, swapchainState,
                    lateState >>

\* lines 126-136: the last conjunct; when it holds find() returns the device
\* and its properties, which run() binds
QueryPresentModes ==
    /\ pc = "get_physical_device_surface_present_modes"
    /\ gpuCalls' = gpuCalls
                      \cup {"get_physical_device_surface_present_modes"}
    /\ IF PresentModesOk(devices[Len(devices)])
       THEN /\ physical_device' = Len(devices)
            /\ trace' = Append(trace, Ev("select", "physical_device"))
            /\ pc' = "select_queue_family"
            /\ UNCHANGED << result, alive, windowAlive >>
       ELSE /\ ScanAfter(devices, device_count)
            /\ UNCHANGED physical_device
    /\ UNCHANGED << started, outer, device_count, devices,
                    queue_family_index, extensions, swapchainState,
                    lateState >>

\* lines 138-151
SelectQueueFamily ==
    /\ pc = "select_queue_family"
    /\ started' = Append(started, "queue_family")
    /\ gpuCalls' = gpuCalls
                      \cup {"get_physical_device_queue_family_properties"}
    /\ LET idx == FindGraphicsFamily(devices[physical_device].queue_families)
       IN  IF idx # -1
           THEN /\ queue_family_index' = idx
                /\ trace' = Append(trace, Ev("select", "queue_family"))
                /\ pc' = "create_device"
                /\ UNCHANGED << result, alive, windowAlive >>
           ELSE /\ Fail("NoGraphicsQueue")
                /\ UNCHANGED queue_family_index
    /\ UNCHANGED << outer, device_count, devices, physical_device,
                    extensions, swapchainState, lateState >>

\* lines 153-164
CreateDevice ==
    /\ pc = "create_device"
    /\ started' = Append(started, "device")
    /\ gpuCalls' = gpuCalls \cup {"create_device"}
    /\ \E ok \in BOOLEAN :
          IF ok THEN Created("device", "surface_capabilities")
                ELSE Fail("DeviceFailure")
    /\ UNCHANGED << outer, selection, extensions, swapchainState, lateState >>

\* lines 166-170
SurfaceCapabilities ==
    /\ pc = "surface_capabilities"
    /\ started' = Append(started, "surface_capabilities")
    /\ gpuCalls' = gpuCalls \cup {"get_physical_device_surface_capabilities"}
    /\ \E ok \in BOOLEAN :
          IF ok
          THEN \E n \in MinImageCounts :
                  /\ min_image_count' = n
                  /\ pc' = "surface_formats"
                  /\ UNCHANGED << result, alive, trace, windowAlive >>
          ELSE /\ Fail("CapabilitiesFailure")
               /\ UNCHANGED min_image_count
    /\ UNCHANGED << outer, selection, extensions, surface_formats,
                    surface_format, swapchain_info, lateState >>

\* lines 171-183: the second formats query, whose answer is logged before
\* the search and whatever the search finds
NegotiateSurfaceFormat ==
    /\ pc = "surface_formats"
    /\ started' = Append(started, "surface_format")
    /\ gpuCalls' = gpuCalls \cup {"get_physical_device_surface_formats"}
    /\ \E answer \in FormatAnswers :
          IF answer.ok
          THEN /\ surface_formats' = answer.val
               /\ log' = log \o FormatsLog(answer.val)
               /\ IF FindSurfaceFormat(answer.val) # 0
                  THEN /\ surface_format' =
                              answer.val[FindSurfaceFormat(answer.val)]
                       /\ trace' = Append(trace,
                                          Ev("select", "surface_format"))
                       /\ pc' = "create_swapchain"
                       /\ UNCHANGED << result, alive, windowAlive >>
                  ELSE /\ Fail("NoCompatibleSurfaceFormat")
                       /\ UNCHANGED surface_format
          ELSE /\ Fail("SurfaceFormatsFailure")
               /\ UNCHANGED << surface_formats, surface_format, log >>
    /\ UNCHANGED << envVar, exitCode, cbCount, cb_last, window_inner_size,
                    selection, extensions, min_image_count, swapchain_info,
                    lateState >>

\* lines 185-209: the create info is built, reading the window's size twice,
\* and handed to create_swapchain
CreateSwapchain ==
    /\ pc = "create_swapchain"
    /\ started' = Append(started, "swapchain")
    /\ gpuCalls' = gpuCalls \cup {"create_swapchain"}
    /\ \E width_read \in WindowSizes, height_read \in WindowSizes :
          /\ window_inner_size' = height_read
          /\ \E ok \in BOOLEAN :
                IF ok
                THEN /\ swapchain_info' =
                            SwapchainCreateInfo(surface_format, width_read,
                                height_read, min_image_count,
                                queue_family_index)
                     /\ Created("swapchain", "create_command_pool")
                ELSE /\ Fail("SwapchainFailure")
                     /\ UNCHANGED swapchain_info
    /\ UNCHANGED << envVar, exitCode, log, cbCount, cb_last, selection,
                    extensions, min_image_count, surface_formats,
                    surface_format, lateState >>

\* lines 211-218
CreateCommandPool ==
    /\ pc = "create_command_pool"
    /\ started' = Append(started, "command_pool")
    /\ gpuCalls' = gpuCalls \cup {"create_command_pool"}
    /\ \E ok \in BOOLEAN :
          IF ok
          THEN /\ command_pool_family' = queue_family_index
               /\ Created("command_pool", "allocate_command_buffer")
          ELSE /\ Fail("CommandPoolFailure")
               /\ UNCHANGED command_pool_family
    /\ UNCHANGED << outer, selection, extensions, swapchainState,
                    command_buffer, color_attachment_format >>

\* lines 220-227
AllocateCommandBuffer ==
    /\ pc = "allocate_command_buffer"
    /\ started' = Append(started, "command_buffer")
    /\ gpuCalls' = gpuCalls \cup {"allocate_command_buffers"}
    /\ \E ok \in BOOLEAN :
          IF ok
          THEN /\ command_buffer' = CommandBufferAllocateInfo("command_pool")
               /\ Created("command_buffer", "create_render_pass")
          ELSE /\ Fail("CommandBufferFailure")
               /\ UNCHANGED command_buffer
    /\ UNCHANGED << outer, selection, extensions, swapchainState,
                    command_pool_family, color_attachment_format >>

\* lines 229-255
CreateRenderPass ==
    /\ pc = "create_render_pass"
    /\ started' = Append(started, "render_pass")
    /\ gpuCalls' = gpuCalls \cup {"create_render_pass"}
    /\ \E ok \in BOOLEAN :
          IF ok
          THEN /\ color_attachment_format' =
                      ColorAttachmentFormat(surface_format)
               /\ Created("render_pass", "destroy_render_pass")
          ELSE /\ Fail("RenderPassFailure")
               /\ UNCHANGED color_attachment_format
    /\ UNCHANGED << outer, selection, extensions, swapchainState,
                    command_pool_family, command_buffer >>

-----------------------------------------------------------------------------
(* Teardown, lines 257-265: reached only when every stage succeeded. *)
locals == << selection, extensions, swapchainState, lateState >>

\* line 258
DestroyRenderPass ==
    /\ pc = "destroy_render_pass"
    /\ gpuCalls' = gpuCalls \cup {"destroy_render_pass"}
    /\ Destroyed("render_pass", "destroy_command_pool")
    /\ UNCHANGED << started, outer, locals >>

\* line 259: the pool's command buffers are released with it
DestroyCommandPool ==
    /\ pc = "destroy_command_pool"
    /\ gpuCalls' = gpuCalls \cup {"destroy_command_pool"}
    /\ alive' = alive \ {"command_pool", "command_buffer"}
    /\ trace' = Append(trace, Ev("destroy", "command_pool"))
    /\ pc' = "destroy_swapchain"
    /\ UNCHANGED << result, windowAlive, started, outer, locals >>

\* line 260
DestroySwapchain ==
    /\ pc = "destroy_swapchain"
    /\ gpuCalls' = gpuCalls \cup {"destroy_swapchain"}
    /\ Destroyed("swapchain", "destroy_device")
    /\ UNCHANGED << started, outer, locals >>

\* line 261
DestroyDevice ==
    /\ pc = "destroy_device"
    /\ gpuCalls' = gpuCalls \cup {"destroy_device"}
    /\ Destroyed("device", "destroy_surface")
    /\ UNCHANGED << started, outer, locals >>

DestroySurface_Forgotten ==
    /\ pc = "destroy_surface"
    /\ pc' = "destroy_debug_messenger"
    /\ UNCHANGED << alive, trace, result, windowAlive, gpuCalls, started,
                    outer, locals >>

\* line 262
DestroySurface ==
    /\ pc = "destroy_surface"
    /\ gpuCalls' = gpuCalls \cup {"destroy_surface"}
    /\ Destroyed("surface", "destroy_debug_messenger")
    /\ UNCHANGED << started, outer, locals >>

DestroyDebugMessenger_Forgotten ==
    /\ pc = "destroy_debug_messenger"
    /\ pc' = "destroy_instance"
    /\ UNCHANGED << alive, trace, result, windowAlive, gpuCalls, started,
                    outer, locals >>

\* line 263
DestroyDebugMessenger ==
    /\ pc = "destroy_debug_messenger"
    /\ gpuCalls' = gpuCalls \cup {"destroy_debug_utils_messenger"}
    /\ Destroyed("debug_messenger", "destroy_instance")
    /\ UNCHANGED << started, outer, locals >>

\* line 264
DestroyInstance ==
    /\ pc = "destroy_instance"
    /\ gpuCalls' = gpuCalls \cup {"destroy_instance"}
    /\ Destroyed("instance", "return_ok")
    /\ UNCHANGED << started, outer, locals >>

\* lines 267-268: Ok(()) and the end of run()'s scope, where `entry` (the
\* loaded library) and then `window` are dropped
ReturnOk ==
    /\ pc = "return_ok"
    /\ result' = "Ok"
    /\ alive' = alive \ {"entry"}
    /\ trace' = Append(trace, Ev("destroy", "entry"))
    /\ windowAlive' = FALSE
    /\ pc' = "returned"
    /\ UNCHANGED << started, gpuCalls, outer, locals >>

\* lines 15-21: main() after run() has returned
MainExit ==
    /\ pc = "returned"
    /\ log' = log \o MainLog(result)
    /\ exitCode' = ExitCode(result)
    /\ pc' = "exited"
    /\ UNCHANGED << envVar, cbCount, cb_last, windowAlive,
                    window_inner_size, alive, trace,
                    started, gpuCalls, result, locals >>

\* Calls of run() whose VkResult reaches a `?` while the messenger exists:
\* the ones a callback returning VK_TRUE would make run() return from.  (The
\* two queries of the device scan are not among them: unwrap_or(false)
\* swallows their error.)
AbortableCalls ==
    { "create_surface", "select_physical_device", "create_device",
      "surface_capabilities", "surface_formats", "create_swapchain",
      "create_command_pool", "allocate_command_buffer", "create_render_pass" }

\* lines 61-84, 99: the driver calls `logger` while the messenger exists and
\* the driver library is loaded, synchronously during the call of run() that
\* is under way.  The value `logger` returns goes back to the driver: VK_FALSE
\* lets the triggering call proceed, anything else makes it fail, and the `?`
\* after it returns from run().
DebugCallback ==
    /\ "debug_messenger" \in alive
    /\ "entry" \in alive
    /\ cbCount < MaxCallbacks
    /\ \E severity \in Severities, msg \in DriverMessages :
          /\ log' = log \o logger(severity, msg).records
          /\ cb_last' = [severity |-> severity,
                         msg |-> msg,
                         ret |-> logger(severity, msg).ret]
          /\ IF logger(severity, msg).ret # VK_FALSE /\ pc \in AbortableCalls
             THEN Fail("CallAborted")
             ELSE UNCHANGED << pc, result, alive, trace, windowAlive >>
    /\ cbCount' = cbCount + 1
    /\ UNCHANGED << envVar, exitCode, window_inner_size, started, gpuCalls,
                    locals >>

Next ==
    \/ CreateWindow
    \/ LoadEntry
    \/ RequiredExtensions
    \/ CreateInstance
    \/ CreateDebugMessenger
    \/ CreateSurface
    \/ EnumeratePhysicalDevices
    \/ GetPhysicalDeviceProperties
    \/ QuerySurfaceFormats
    \/ QueryPresentModes
    \/ SelectQueueFamily
    \/ CreateDevice
    \/ SurfaceCapabilities
    \/ NegotiateSurfaceFormat
    \/ CreateSwapchain
    \/ CreateCommandPool
    \/ AllocateCommandBuffer
    \/ CreateRenderPass
    \/ DestroyRenderPass
    \/ DestroyCommandPool
    \/ DestroySwapchain
    \/ DestroyDevice
    \/ DestroySurface
    \/ DestroyDebugMessenger
    \/ DestroyInstance
    \/ ReturnOk
    \/ MainExit
    \/ DebugCallback

Spec == Init /\ [][Next]_vars

-----------------------------------------------------------------------------
(* Vocabulary of the properties. *)
Range(seq) == { seq[i] : i \in 1..Len(seq) }

CreatedSet == { e.obj : e \in { x \in Range(trace) : x.ev = "create" } }

DestroyCount(obj) ==
    Cardinality({ i \in 1..Len(trace) : trace[i] = Ev("destroy", obj) })

Returned == pc \in {"returned", "exited"}

\* (parent, child) pairs of the data model
DependsOn ==
    { << "entry", "instance" >>,
      << "instance", "debug_messenger" >>,
      << "instance", "surface" >>,
      << "instance", "device" >>,
      << "device", "swapchain" >>,
      << "surface", "swapchain" >>,
      << "device", "command_pool" >>,
      << "command_pool", "command_buffer" >>,
      << "device", "render_pass" >> }

\* handles that have a destructor
OwnedHandles ==
    { "instance", "debug_messenger", "surface", "device", "swapchain",
      "command_pool", "render_pass" }

CreationOrder ==
    << Ev("create", "entry"), Ev("create", "instance"),
       Ev("create", "debug_messenger"), Ev("create", "surface"),
       Ev("select", "physical_device"), Ev("select", "queue_family"),
       Ev("create", "device"), Ev("select", "surface_format"),
       Ev("create", "swapchain"), Ev("create", "command_pool"),
       Ev("create", "command_buffer"), Ev("create", "render_pass") >>

DestructionOrder ==
    << Ev("destroy", "render_pass"), Ev("destroy", "command_pool"),
       Ev("destroy", "swapchain"), Ev("destroy", "device"),
       Ev("destroy", "surface"), Ev("destroy", "debug_messenger"),
       Ev("destroy", "instance"), Ev("destroy", "entry") >>

\* the stages of run() in program order
StageOrder ==
    << "window", "entry", "required_extensions", "instance",
       "debug_messenger", "surface", "physical_device", "queue_family",
       "device", "surface_capabilities", "surface_format", "swapchain",
       "command_pool", "command_buffer", "render_pass" >>

\* the stage each error comes from
FailingStage(kind) ==
    CASE kind = "WindowFailure" -> "window"
      [] kind \in {"ConfigMissing", "LoaderFailure"} -> "entry"
      [] kind = "ExtensionsFailure" -> "required_extensions"
      [] kind = "InstanceFailure" -> "instance"
      [] kind = "DebugMessengerFailure" -> "debug_messenger"
      [] kind = "SurfaceFailure" -> "surface"
      [] kind \in {"EnumerateFailure", "NoSuitableDevice"} -> "physical_device"
      [] kind = "NoGraphicsQueue" -> "queue_family"
      [] kind = "DeviceFailure" -> "device"
      [] kind = "CapabilitiesFailure" -> "surface_capabilities"
      [] kind \in {"SurfaceFormatsFailure", "NoCompatibleSurfaceFormat"}
            -> "surface_format"
      [] kind = "SwapchainFailure" -> "swapchain"
      [] kind = "CommandPoolFailure" -> "command_pool"
      [] kind = "CommandBufferFailure" -> "command_buffer"
      [] kind = "RenderPassFailure" -> "render_pass"
      [] OTHER -> "none"

-----------------------------------------------------------------------------
\* C1: in every execution of run, failing ones included, a child of the data
\* model is alive only while its parent is alive: it is created while the
\* parent exists and the parent is not destroyed or dropped before it.
C1_DependencyOrder ==
    \A pair \in DependsOn : pair[2] \in alive => pair[1] \in alive

\* C2: once run has returned, on every exit path, every owned handle that was
\* created has had its destructor invoked exactly once.
C2_TeardownTotality ==
    Returned =>
        \A h \in OwnedHandles : h \in CreatedSet => DestroyCount(h) = 1

\* C3: when every stage succeeds the creation events occur in the order
\* loader, instance, debug messenger, surface, physical device, queue family,
\* device, surface format, swapchain, command pool, command buffer, render pass
\* and are followed by the destructions render pass, command pool, swapchain,
\* device, surface, debug messenger, instance, loader; while run is under way
\* the events so far are a prefix of that sequence.
C3_OrderOnSuccess ==
    LET full == CreationOrder \o DestructionOrder
    IN  /\ result = "Ok" => trace = full
        /\ result = "none" =>
              /\ Len(trace) <= Len(full)
              /\ trace = SubSeq(full, 1, Len(trace))

C3_Witness == pc = "exited" /\ result = "Ok" /\ Len(trace) = 20

\* the selection predicate as the specification states it
PassesPredicate(d) ==
    /\ d.api_version >= API_VERSION_1_1
    /\ d.surface_formats.ok /\ d.surface_formats.val # << >>
    /\ d.present_modes.ok /\ d.present_modes.val # << >>

\* positions of run() inside the scan of the enumerated devices
ScanPositions ==
    { "get_physical_device_properties", "get_physical_device_surface_formats",
      "get_physical_device_surface_present_modes" }

\* the enumeration succeeded and find() has returned
SelectionDone ==
    /\ "physical_device" \in Range(started)
    /\ result # "EnumerateFailure"
    /\ pc \notin ScanPositions

\* C4: the selected physical device passes the predicate (API version >= 1.1,
\* at least one surface format, at least one present mode), every device
\* enumerated before it fails the predicate, and run fails with
\* NoSuitableDevice exactly when the enumeration succeeded and no enumerated
\* device passes: then every enumerated device has been examined.
C4_FirstSuitableDevice ==
    /\ Len(devices) <= device_count
    /\ physical_device # 0 =>
          /\ physical_device \in 1..Len(devices)
          /\ PassesPredicate(devices[physical_device])
          /\ \A j \in 1..(physical_device - 1) : ~PassesPredicate(devices[j])
    /\ result = "NoSuitableDevice" <=>
          /\ SelectionDone
          /\ Len(devices) = device_count
          /\ \A i \in 1..Len(devices) : ~PassesPredicate(devices[i])

C4_Witness ==
    /\ physical_device = 2
    /\ devices[1].api_version = API_VERSION_1_0
    /\ pc = "select_queue_family"

\* C5: the selected queue family is the lowest index of the selected device
\* whose flags include graphics; run fails with NoGraphicsQueue exactly when
\* that device has no such family, and then no logical device is created.
C5_LowestGraphicsFamily ==
    LET families == devices[physical_device].queue_families
    IN  /\ queue_family_index # -1 =>
              /\ queue_family_index + 1 \in 1..Len(families)
              /\ GRAPHICS \in families[queue_family_index + 1]
              /\ \A j \in 1..queue_family_index : GRAPHICS \notin families[j]
        /\ result = "NoGraphicsQueue" <=>
              /\ "queue_family" \in Range(started)
              /\ \A i \in 1..Len(families) : GRAPHICS \notin families[i]
        /\ result = "NoGraphicsQueue" =>
              /\ "device" \notin CreatedSet
              /\ "create_device" \notin gpuCalls

C5_Witness ==
    /\ queue_family_index = 1
    /\ pc = "create_device"
    /\ GRAPHICS \notin devices[physical_device].queue_families[1]

FormatsReported ==
    "surface_format" \in Range(started) /\ result # "SurfaceFormatsFailure"

\* C6: the negotiated surface format is the first reported pair whose color
\* space is SRGB_NONLINEAR; a swapchain is only ever created with that color
\* space; when no reported pair has it run fails with
\* NoCompatibleSurfaceFormat, with the logical device created and no swapchain
\* creation attempted.
C6_FirstSrgbFormat ==
    LET formats == surface_formats
    IN  /\ surface_format # NoFormat =>
              \E i \in 1..Len(formats) :
                 /\ formats[i] = surface_format
                 /\ formats[i].color_space = SRGB_NONLINEAR
                 /\ \A j \in 1..(i - 1) :
                       formats[j].color_space # SRGB_NONLINEAR
        /\ swapchain_info.created =>
              /\ surface_format.color_space = SRGB_NONLINEAR
              /\ swapchain_info.image_color_space = SRGB_NONLINEAR
        /\ (/\ FormatsReported
            /\ \A i \in 1..Len(formats) :
                  formats[i].color_space # SRGB_NONLINEAR) =>
              /\ result = "NoCompatibleSurfaceFormat"
              /\ "device" \in CreatedSet
              /\ "swapchain" \notin CreatedSet
              /\ "create_swapchain" \notin gpuCalls

C6_Witness ==
    /\ "swapchain" \in alive
    /\ surface_format = Fmt("R8G8B8A8_SRGB", SRGB_NONLINEAR)
    /\ surface_formats[1].color_space = BT2020_LINEAR

\* C7: when both a swapchain and a render pass have been created, the
\* swapchain's image format, the color attachment's format and the negotiated
\* surface format's pixel format are the same.
C7_FormatMatches ==
    ("swapchain" \in CreatedSet /\ "render_pass" \in CreatedSet) =>
        /\ swapchain_info.image_format = color_attachment_format
        /\ color_attachment_format = surface_format.format

C7_Witness ==
    /\ "render_pass" \in alive
    /\ "swapchain" \in alive
    /\ color_attachment_format = "R8G8B8A8_SRGB"

\* C8: the extensions handed to instance creation are, as a set, exactly the
\* window library's required list together with VK_KHR_surface and
\* VK_EXT_debug_utils.
C8_ExtensionClosure ==
    "create_instance" \in gpuCalls =>
        /\ Range(required_instance_extensions) \subseteq
              Range(instance_extensions)
        /\ "VK_KHR_surface" \in Range(instance_extensions)
        /\ "VK_EXT_debug_utils" \in Range(instance_extensions)
        /\ Range(instance_extensions) =
              Range(required_instance_extensions)
                 \cup {"VK_KHR_surface", "VK_EXT_debug_utils"}

C8_Witness ==
    /\ "instance" \in alive
    /\ required_instance_extensions =
          << "VK_KHR_surface", "VK_KHR_wayland_surface" >>

\* C9 as stated: with VK_LIBRARY_PATH unset, run fails with ConfigMissing and
\* attempts no GPU call.
C9_UnsetMeansConfigMissing ==
    (envVar = "unset" /\ Returned) =>
        /\ result = "ConfigMissing"
        /\ gpuCalls = {}

\* C9 amended: with VK_LIBRARY_PATH unset no GPU call is ever attempted, and
\* run fails with ConfigMissing unless window creation, which comes first,
\* has already failed.
C9_UnsetNoGpuCalls ==
    envVar = "unset" =>
        /\ gpuCalls = {}
        /\ Returned => result \in {"ConfigMissing", "WindowFailure"}
        /\ (Returned /\ "entry" \in Range(started)) =>
              result = "ConfigMissing"

C9_Witness ==
    /\ envVar = "unset"
    /\ pc = "exited"
    /\ result = "ConfigMissing"
    /\ started = << "window", "entry" >>

MainRecord == [level |-> "error", msg |-> << "Fatal error: ", result >>]

MainRecordCount ==
    Cardinality({ i \in 1..Len(log) : log[i] = MainRecord })

\* C10: the stages run in program order, each at most once; after a failure
\* the failing stage is the last one started and its error is what run
\* returns; main logs that error exactly once at error level and the process
\* result is non-zero; the process result is zero only if every stage
\* succeeded, and then nothing is logged by main.
C10_FailureIsFatal ==
    /\ Len(started) <= Len(StageOrder)
    /\ started = SubSeq(StageOrder, 1, Len(started))
    /\ result \notin {"none", "Ok"} =>
          /\ Returned
          /\ started # << >>
          /\ FailingStage(result) = started[Len(started)]
    /\ result = "Ok" => started = StageOrder
    /\ pc = "exited" =>
          /\ result # "none"
          /\ result # "Ok" => (MainRecordCount = 1 /\ exitCode # 0)
          /\ exitCode = 0 <=> result = "Ok"
          /\ result = "Ok" => MainRecordCount = 0
    /\ pc # "exited" => (exitCode = -1 /\ MainRecordCount = 0)

C10_Witness ==
    /\ pc = "exited"
    /\ result = "SwapchainFailure"
    /\ exitCode = 1
    /\ MainRecordCount = 1

\* the severity policy as the specification states it
PolicyLevel(severity) ==
    CASE severity = VERBOSE -> "debug"
      [] severity = INFO -> "info"
      [] severity = WARNING -> "warn"
      [] severity = ERROR -> "error"
      [] OTHER -> "dropped"

CallbackStep == cbCount' = cbCount + 1

\* C11: every invocation of the debug callback returns false; for Verbose,
\* Info, Warning and Error it appends exactly one record, at level debug,
\* info, warn and error respectively, carrying the driver's message text; for
\* any other severity it appends nothing.
C11_SeverityPolicy ==
    [][CallbackStep =>
          /\ cb_last'.ret = VK_FALSE
          /\ IF PolicyLevel(cb_last'.severity) = "dropped"
             THEN log' = log
             ELSE log' = Append(log,
                                [level |-> PolicyLevel(cb_last'.severity),
                                 msg |-> << cb_last'.msg >>])]_vars

C11_Witness ==
    /\ cbCount = 1
    /\ cb_last.severity = ERROR
    /\ cb_last.ret = VK_FALSE
    /\ log = << [level |-> "error", msg |-> << "validation message" >>] >>

\* C12: a debug callback delivered at any point leaves the position of run,
\* its result, the creation and destruction events, the stages started, the
\* live objects and every local exactly as they were, so the run proceeds as
\* it would without the callback; a warning appends exactly one warn-level
\* record with the driver's text.
C12_CallbackTransparent ==
    [][CallbackStep =>
          /\ UNCHANGED << pc, result, exitCode, trace, started, alive,
                          gpuCalls, windowAlive, locals >>
          /\ cb_last'.severity = WARNING =>
                log' = Append(log, [level |-> "warn",
                                    msg |-> << cb_last'.msg >>])]_vars

C12_Witness ==
    /\ pc = "create_swapchain"
    /\ result = "none"
    /\ cbCount = 1
    /\ cb_last.severity = WARNING
    /\ Len(log) = Len(FormatsLog(surface_formats)) + 1
    /\ log[Len(log)] = [level |-> "warn", msg |-> << "validation message" >>]
    /\ Cardinality({ i \in 1..Len(log) : log[i].level = "warn" }) = 1

\* C13: a swapchain is created with the window's current inner size as its
\* extent, the surface's reported minimum as its image count, exclusive
\* sharing on the single selected graphics family and present mode FIFO; a
\* clean run with a 1080x720 window and a surface minimum of 2 has created it
\* with extent 1080x720 and image count 2 and has released every object.
C13_SwapchainParameters ==
    /\ swapchain_info.created <=> "swapchain" \in CreatedSet
    /\ swapchain_info.created =>
          /\ swapchain_info.image_extent = window_inner_size
          /\ swapchain_info.min_image_count = min_image_count
          /\ min_image_count \in MinImageCounts
          /\ swapchain_info.image_sharing_mode = "EXCLUSIVE"
          /\ swapchain_info.queue_family_indices = << queue_family_index >>
          /\ GRAPHICS \in devices[physical_device]
                             .queue_families[queue_family_index + 1]
          /\ swapchain_info.present_mode = "FIFO"
    /\ (/\ result = "Ok"
        /\ window_inner_size = << 1080, 720 >>
        /\ min_image_count = 2) =>
          /\ swapchain_info.created
          /\ swapchain_info.image_extent = << 1080, 720 >>
          /\ swapchain_info.min_image_count = 2
          /\ alive = {}
          /\ pc = "exited" => exitCode = 0

RECURSIVE IndexFrom(_, _)
IndexFrom(e, i) ==
    IF i > Len(trace) THEN 0
    ELSE IF trace[i] = e THEN i
    ELSE IndexFrom(e, i + 1)

\* position of the first occurrence of an event in the trace, 0 if none
IndexOf(e) == IndexFrom(e, 1)

OtherInstanceChildren ==
    { "surface", "device", "swapchain", "command_pool", "render_pass" }

MessengerBracketsChildren ==
    LET ci == IndexOf(Ev("create", "instance"))
        cm == IndexOf(Ev("create", "debug_messenger"))
        dm == IndexOf(Ev("destroy", "debug_messenger"))
        di == IndexOf(Ev("destroy", "instance"))
    IN  /\ cm # 0 => (ci # 0 /\ ci < cm)
        /\ di # 0 => (cm # 0 /\ dm # 0 /\ dm < di)
        /\ \A i \in 1..Len(trace) :
              (/\ trace[i].ev \in {"create", "destroy"}
               /\ trace[i].obj \in OtherInstanceChildren) =>
                 /\ cm # 0 /\ cm < i
                 /\ dm = 0 \/ i < dm

\* C14: the debug messenger is created after the instance and destroyed
\* before it, every creation and destruction of another instance child falls
\* between the two, and no callback is delivered while the instance is being
\* created or destroyed: a callback only arrives while both the messenger and
\* the instance exist.
C14_MessengerLifetime ==
    /\ []MessengerBracketsChildren
    /\ [][CallbackStep =>
             /\ pc \notin {"create_instance", "destroy_instance"}
             /\ "instance" \in alive
             /\ "debug_messenger" \in alive]_vars

C14_Witness ==
    /\ pc = "return_ok"
    /\ DestroyCount("debug_messenger") = 1
    /\ DestroyCount("instance") = 1
    /\ cbCount = 1
    /\ cb_last # NoCallback

CommandBufferAllocations ==
    Cardinality({ i \in 1..Len(trace) :
                     trace[i] = Ev("create", "command_buffer") })

CommandBufferState ==
    LET cp == IndexOf(Ev("create", "command_pool"))
        cb == IndexOf(Ev("create", "command_buffer"))
        dp == IndexOf(Ev("destroy", "command_pool"))
        dd == IndexOf(Ev("destroy", "device"))
    IN  /\ CommandBufferAllocations <= 1
        /\ "render_pass" \in Range(started) => CommandBufferAllocations = 1
        /\ cb # 0 =>
              /\ cp # 0 /\ cp < cb
              /\ command_buffer.command_buffer_count = 1
              /\ command_buffer.level = "PRIMARY"
              /\ command_buffer.command_pool = "command_pool"
              /\ command_pool_family = queue_family_index
              /\ GRAPHICS \in devices[physical_device]
                                 .queue_families[command_pool_family + 1]
              /\ "command_buffer" \in alive <=> dp = 0
        /\ cb = 0 =>
              /\ command_buffer = NoCommandBuffer
              /\ "command_buffer" \notin alive
        /\ DestroyCount("command_buffer") = 0
        /\ "free_command_buffers" \notin gpuCalls
        /\ dd # 0 => (dp # 0 /\ dp < dd)

\* C15: command buffers are allocated at most once, one primary buffer, from
\* the command pool created before on the selected graphics family; they are
\* never freed by a call of their own: they are alive from their allocation
\* until the pool is destroyed, they cease to exist in the very step that
\* destroys the pool, and the pool is destroyed before the device.
C15_CommandBufferLifetime ==
    /\ []CommandBufferState
    /\ [][("command_buffer" \in alive /\ "command_buffer" \notin alive') =>
             /\ pc = "destroy_command_pool"
             /\ "command_pool" \in alive
             /\ "command_pool" \notin alive']_vars

C15_Witness ==
    /\ pc = "destroy_swapchain"
    /\ "command_buffer" \in CreatedSet
    /\ "command_buffer" \notin alive
    /\ "command_pool" \notin alive
    /\ "device" \in alive

QueryFails(d) == ~d.surface_formats.ok \/ ~d.present_modes.ok

\* C16: a device whose surface-format or present-mode query returns an error
\* is merely not selected: the devices after it are still considered, so a
\* later device that passes is selected, and the only errors run returns from
\* this stage are a failed enumeration and NoSuitableDevice.
C16_QueryErrorSkipsDevice ==
    /\ physical_device # 0 => ~QueryFails(devices[physical_device])
    /\ \A i \in 1..Len(devices) :
          (QueryFails(devices[i]) /\ i < device_count) =>
             (Len(devices) > i \/ pc \in ScanPositions)
    /\ (SelectionDone /\ \E i \in 1..Len(devices) : PassesPredicate(devices[i]))
          => (physical_device # 0 /\ result # "NoSuitableDevice")
    /\ (Returned /\ started # << >>
          /\ started[Len(started)] = "physical_device") =>
             result \in {"EnumerateFailure", "NoSuitableDevice"}
    /\ result = "SurfaceFormatsFailure" => "surface_format" \in Range(started)

C16_Witness ==
    /\ physical_device = 2
    /\ devices[1].api_version >= API_VERSION_1_1
    /\ ~devices[1].surface_formats.ok
    /\ pc = "select_queue_family"

FirstPassing ==
    IF \E i \in 1..Len(devices) : PassesPredicate(devices[i])
    THEN CHOOSE i \in 1..Len(devices) :
            /\ PassesPredicate(devices[i])
            /\ \A j \in 1..(i - 1) : ~PassesPredicate(devices[j])
    ELSE 0

LacksGraphics(d) ==
    \A i \in 1..Len(d.queue_families) : GRAPHICS \notin d.queue_families[i]

\* the list reported to the negotiation has no SRGB_NONLINEAR pair
NoSrgbReported ==
    \A i \in 1..Len(surface_formats) :
       surface_formats[i].color_space # SRGB_NONLINEAR

DeviceSelections ==
    Cardinality({ i \in 1..Len(trace) :
                     trace[i] = Ev("select", "physical_device") })

SelectionIsFinal ==
    /\ DeviceSelections <= 1
    /\ physical_device # 0 =>
          /\ physical_device = FirstPassing
          /\ Len(devices) = physical_device
    /\ ("queue_family" \in Range(started)
          /\ LacksGraphics(devices[physical_device]))
          => result = "NoGraphicsQueue"
    /\ (FormatsReported /\ NoSrgbReported)
          => result = "NoCompatibleSurfaceFormat"

\* C17: the physical device is chosen once, as the first device passing the
\* selection predicate, and never changes afterwards; no device enumerated
\* after it is ever examined, so when the chosen device has no graphics queue
\* family, or no SRGB_NONLINEAR format is reported for it, run fails with
\* that stage's error whatever the later devices offer.
C17_SelectionNeverRevisited ==
    /\ []SelectionIsFinal
    /\ [][physical_device # 0 => physical_device' = physical_device]_vars

C17_Witness ==
    /\ result = "NoGraphicsQueue"
    /\ physical_device = 1
    /\ device_count = 2
    /\ Len(devices) = 1

====
